---------------------------- MODULE Spec2Model ----------------------------
(***************************************************************************)
(* Model of the decision core of the trader skill:                         *)
(*   - DecisionReceiveBehaviour (decision_maker_abci/behaviours/           *)
(*     decision_receive.py): the dataset replay source                      *)
(*     (_cut_dataset_row), the forecast resolver (_mock_response,           *)
(*     _get_response, _get_decision), the AMM profitability calculator      *)
(*     (_calc_binary_shares, _is_profitable) and the cycle (async_act).     *)
(*                                                                         *)
(* Files are sequences of lines, a line is a sequence of tokens.  A token   *)
(* is the quote character, a separator character, or a text atom that       *)
(* stands for a run of ordinary characters.  Python floats are modelled as  *)
(* binary floating point numbers with MantissaBits significant bits and     *)
(* round-to-nearest-even, amounts being scaled down accordingly.            *)
(***************************************************************************)
EXTENDS Integers, Sequences, FiniteSets, TLC

VARIABLES
    \* ---- dataset replay source (_cut_dataset_row) ----
    sep,          \* benchmarking_mode.sep
    dataset,      \* content of the file at dataset_filepath
    original,     \* history: the dataset the run started from
    callPre,      \* history: the dataset when the current/last call started
    cutPc,        \* position inside _cut_dataset_row
    rdPos,        \* the csv reader's position (index of the next line)
    headers,      \* reader.fieldnames
    cutRow,       \* row_with_headers
    tmpState,     \* the temporary file: "none", "open", "replaced", "closed"
    tmpDisk,      \* lines of the temporary file that reached the file system
    tmpBuf,       \* lines still in the writer's buffer
    tmpLeaked,    \* temporary files left behind on the file system
    returned,     \* history: the rows returned by the successful calls
    lastResult,   \* what the last call did: [kind, row]
    crashes,      \* number of process crashes so far
    logged,       \* error and warning lines logged so far (a set)
    \* ---- the decision cycle (async_act) ----
    benchmarking, \* benchmarking_mode.enabled
    poolFee,      \* benchmarking_mode.pool_fee
    betThreshold, \* params.bet_threshold
    mechResponses,\* synchronized_data.mech_responses
    mechResponse, \* self._mech_response
    mockData,     \* shared_state.mock_data
    pool,         \* the pool: sampled_bet, or the Bet built in benchmarking mode
    betPre,       \* history: the pool when _is_profitable was entered
    pc,           \* position inside async_act
    decision,     \* what _get_decision returned
    sizingCalls,  \* requests made to the bet-sizing service in this cycle
    recommended,  \* what get_bet_amount returned
    evalOut,      \* what _is_profitable computed, logged and returned
    payload,      \* the DecisionReceivePayload built
    submitted,    \* payloads handed to finish_behaviour in this cycle
    fault,        \* the exception that left async_act, if any
    cycles,       \* cycles run so far
    prevOut,      \* history: what the previous cycle on this pool evaluated
    \* ---- DecisionMakerAbciApp (rounds.py) ----
    appRound,     \* the current round of the app
    appTrail,     \* history: the <<round, event, next round>> processed so far
    appBehaviour, \* the current behaviour of AgentDecisionMakerRoundBehaviour
    \* ---- ComponentLoadingAbciApp and SetupBehaviour (ui_loader_abci) ----
    uiRound,      \* the current round of the app
    uiTrail,      \* history: the <<round, event, next round>> processed so far
    uiEnabled,    \* params.user_interface_enabled
    ipfsFiles,    \* the files of the package behind user_interface_ipfs_hash
    frontend,     \* the files of the directory "frontend"
    routes,       \* shared_state["routes"], None while the key is not set
    setupPc,      \* where SetupBehaviour.async_act stands
    setupData,    \* setup_data of the SetupPayload, None while there is none
    downloaded,   \* history: the outcome of the download of this act
    routesPre,    \* history: shared_state["routes"] when this act started
    uiLogged,     \* the messages of load_ui, lines 177-183, that were logged
    uiFault       \* the exception that ended SetupBehaviour, if any

cutVars == <<sep, dataset, original, callPre, cutPc, rdPos, headers, cutRow,
             tmpState, tmpDisk, tmpBuf, tmpLeaked, returned, lastResult,
             crashes, logged>>

actVars == <<benchmarking, poolFee, betThreshold, mechResponses, mechResponse,
             mockData, pool, betPre, pc, decision, sizingCalls, recommended,
             evalOut, payload, submitted, fault, cycles>>

appVars == <<appRound, appTrail, appBehaviour>>

uiVars == <<uiRound, uiTrail, uiEnabled, ipfsFiles, frontend, routes, setupPc,
            setupData, downloaded, routesPre, uiLogged, uiFault>>

vars == <<cutVars, actVars, prevOut, appVars, uiVars>>

-----------------------------------------------------------------------------
(* Bounds of the model *)

MaxRows == 3
MaxCrashes == 1

\* significant bits of a float: Python's binary64 has 53, and the amounts of
\* the model are scaled down with it
MantissaBits == 4

MaxStake == 4
MaxCycles == 2
MaxStays == 3
MaxChanges == 4
MaxUiEvents == 5

\* the unit of the fee: a fee is fee / FeeDen of the stake (10^18 wei in the
\* source, scaled)
FeeDen == 10

-----------------------------------------------------------------------------
(* Constants of the source *)

QUOTE == "\""
TWO_QUOTES == <<QUOTE, QUOTE>>
COMMA == ","
SEMICOLON == ";"
BINARY_N_SLOTS == 2

\* int(10e18), scaled: the reserve of each outcome in the benchmarking pool
BenchmarkReserve == 25

\* Optional values: None is the empty tuple, a present value x is <<x>>
None == <<>>
Some(x) == <<x>>

-----------------------------------------------------------------------------
(* Sequence helpers *)

RECURSIVE Concat(_)
Concat(ss) ==
    IF ss = <<>> THEN <<>> ELSE Head(ss) \o Concat(Tail(ss))

RECURSIVE Join(_, _)
Join(fields, s) ==
    IF fields = <<>> THEN <<>>
    ELSE IF Len(fields) = 1 THEN fields[1]
    ELSE fields[1] \o <<s>> \o Join(Tail(fields), s)

Contains(field, tok) ==
    \E i \in 1..Len(field) : field[i] = tok

ContainsTwoQuotes(field) ==
    \E i \in 1..(Len(field) - 1) : field[i] = QUOTE /\ field[i + 1] = QUOTE

\* str.replace(QUOTE, TWO_QUOTES)
ReplaceQuotes(field) ==
    Concat([i \in 1..Len(field) |->
               IF field[i] = QUOTE THEN TWO_QUOTES ELSE <<field[i]>>])

-----------------------------------------------------------------------------
(* csv.reader with delimiter = s, quotechar = QUOTE, doublequote, not strict *)

RECURSIVE CsvParse(_, _, _, _, _, _)
CsvParse(line, i, state, field, fields, s) ==
    IF i > Len(line)
    THEN IF state = "START_RECORD" THEN <<>> ELSE Append(fields, field)
    ELSE LET c == line[i] IN
         CASE state \in {"START_RECORD", "START_FIELD"} ->
                IF c = QUOTE
                THEN CsvParse(line, i + 1, "IN_QUOTED_FIELD", field, fields, s)
                ELSE IF c = s
                THEN CsvParse(line, i + 1, "START_FIELD", <<>>,
                              Append(fields, field), s)
                ELSE CsvParse(line, i + 1, "IN_FIELD", Append(field, c),
                              fields, s)
           [] state = "IN_FIELD" ->
                IF c = s
                THEN CsvParse(line, i + 1, "START_FIELD", <<>>,
                              Append(fields, field), s)
                ELSE CsvParse(line, i + 1, "IN_FIELD", Append(field, c),
                              fields, s)
           [] state = "IN_QUOTED_FIELD" ->
                IF c = QUOTE
                THEN CsvParse(line, i + 1, "QUOTE_IN_QUOTED_FIELD", field,
                              fields, s)
                ELSE CsvParse(line, i + 1, "IN_QUOTED_FIELD",
                              Append(field, c), fields, s)
           [] OTHER -> \* QUOTE_IN_QUOTED_FIELD
                IF c = QUOTE
                THEN CsvParse(line, i + 1, "IN_QUOTED_FIELD",
                              Append(field, c), fields, s)
                ELSE IF c = s
                THEN CsvParse(line, i + 1, "START_FIELD", <<>>,
                              Append(fields, field), s)
                ELSE CsvParse(line, i + 1, "IN_FIELD", Append(field, c),
                              fields, s)

ParseLine(line, s) == CsvParse(line, 1, "START_RECORD", <<>>, <<>>, s)

\* csv.DictReader skips the rows that parse to the empty list
RECURSIVE SkipBlank(_, _, _)
SkipBlank(file, pos, s) ==
    IF pos > Len(file) THEN pos
    ELSE IF ParseLine(file[pos], s) = <<>> THEN SkipBlank(file, pos + 1, s)
    ELSE pos

\* csv.DictReader.__next__: dict(zip(fieldnames, row)), restval = None for the
\* missing fields, the surplus fields under restkey = None
DictRow(hdrs, row) ==
    [fields |-> [i \in 1..Len(hdrs) |->
                    IF i <= Len(row) THEN Some(row[i]) ELSE None],
     rest   |-> IF Len(row) > Len(hdrs)
                THEN SubSeq(row, Len(hdrs) + 1, Len(row)) ELSE <<>>]

\* reader.fieldnames: the first row of the file, None for an empty file
FieldNames(file, s) ==
    IF Len(file) = 0 THEN None ELSE Some(ParseLine(file[1], s))

\* next(reader, {}) at line position pos (pos >= 2): <<the row dict (None for
\* the empty dict of the default), the new position>>
NextRow(file, pos, s) ==
    LET p == SkipBlank(file, pos, s) IN
    IF Len(file) = 0 \/ p > Len(file) THEN <<None, p>>
    ELSE <<Some(DictRow(FieldNames(file, s)[1], ParseLine(file[p], s))), p + 1>>

-----------------------------------------------------------------------------
(* _cut_dataset_row: serialisation of the rows that stay *)

\* lines 129-135: the quotes of one field
PreserveQuotes(field) ==
    LET f1 == IF Contains(field, QUOTE) THEN ReplaceQuotes(field) ELSE field
    IN  IF Contains(f1, COMMA) \/ ContainsTwoQuotes(f1)
        THEN <<QUOTE>> \o f1 \o <<QUOTE>>
        ELSE f1

\* lines 127-138: a row with a None value or a list value raises
RowRaises(d) ==
    \/ \E i \in 1..Len(d.fields) : d.fields[i] = None
    \/ d.rest # <<>>

SerializedRow(d, s) ==
    Join([i \in 1..Len(d.fields) |-> PreserveQuotes(d.fields[i][1])], s)

\* line 118
SerializedHeader(hdrs, s) == Join(hdrs, s)

-----------------------------------------------------------------------------
(* Python floats.  A float is a non-negative rational <<n, d>>, d a power of *)
(* two; every float operation rounds its exact result to the nearest value   *)
(* with MantissaBits significant bits, ties to even.                         *)

RECURSIVE Pow2(_)
Pow2(e) == IF e = 0 THEN 1 ELSE 2 * Pow2(e - 1)

RoundHalfEven(a, b) ==
    LET q == a \div b
        r == a % b
    IN  IF 2 * r < b THEN q
        ELSE IF 2 * r > b THEN q + 1
        ELSE IF q % 2 = 0 THEN q ELSE q + 1

\* least e >= 0 with n / (d * 2^e) < 2^MantissaBits
RECURSIVE ExpUp(_, _, _)
ExpUp(n, d, e) ==
    IF n < Pow2(MantissaBits) * d * Pow2(e) THEN e ELSE ExpUp(n, d, e + 1)

\* greatest f >= 0 with n * 2^f / d < 2^MantissaBits
RECURSIVE ExpDown(_, _, _)
ExpDown(n, d, f) ==
    IF n * Pow2(f + 1) < Pow2(MantissaBits) * d
    THEN ExpDown(n, d, f + 1) ELSE f

\* the float nearest to n / d
RoundF(n, d) ==
    IF n = 0 THEN <<0, 1>>
    ELSE IF n >= Pow2(MantissaBits) * d
    THEN LET e == ExpUp(n, d, 0) IN
         <<RoundHalfEven(n, d * Pow2(e)) * Pow2(e), 1>>
    ELSE LET f == ExpDown(n, d, 0) IN
         <<RoundHalfEven(n * Pow2(f), d), Pow2(f)>>

FloatOfInt(n) == RoundF(n, 1)                      \* float(n)
TrueDiv(a, b) == RoundF(a, b)                      \* int / int
FloatDiv(x, y) == RoundF(x[1] * y[2], x[2] * y[1]) \* float / float
FloatMul(x, y) == RoundF(x[1] * y[1], x[2] * y[2]) \* float * float
IntOfFloat(x) == x[1] \div x[2]                    \* int(x), x >= 0
FloatLess(x, y) == x[1] * y[2] < y[1] * x[2]       \* x < y

Max(a, b) == IF a >= b THEN a ELSE b

-----------------------------------------------------------------------------
(* The pool (Bet) and the AMM profitability calculator *)

\* the literal 1.05
SLIPPAGE == RoundF(105, 100)

Bet(amounts, prices, fee) ==
    [outcomeTokenAmounts |-> amounts,
     outcomeTokenMarginalPrices |-> prices,
     fee |-> fee]

\* math.prod
RECURSIVE prod(_)
prod(xs) == IF xs = <<>> THEN 1 ELSE Head(xs) * prod(Tail(xs))

\* a pop that ignores its index and removes the last element
PopIgnoringIndex(xs, i) ==
    <<xs[Len(xs)], SubSeq(xs, 1, Len(xs) - 1)>>

\* list.pop(i), i counted from 0: <<the element, the list without it>>
Pop(xs, i) ==
    <<xs[i + 1], SubSeq(xs, 1, i) \o SubSeq(xs, i + 2, Len(xs))>>

\* list.pop(): the last element
PopLast(xs) == <<xs[Len(xs)], SubSeq(xs, 1, Len(xs) - 1)>>

\* vote ^ 1
Xor1(vote) == IF vote % 2 = 0 THEN vote + 1 ELSE vote - 1

\* _get_bet_sample_info: None when an index is out of range (IndexError)
GetBetSampleInfo(bet, vote) ==
    LET token_amounts == bet.outcomeTokenAmounts
        opposite_vote == Xor1(vote)
    IN  IF vote + 1 > Len(token_amounts) \/ opposite_vote + 1 > Len(token_amounts)
        THEN None
        ELSE Some(<<token_amounts[vote + 1], token_amounts[opposite_vote + 1]>>)

\* base.remove_fraction_wei(amount, wei_to_native(fee)): the amount less the
\* fee fraction fee / FeeDen of it, the fee truncated
RemoveFractionWei(amount, fee) == amount - ((amount * fee) \div FeeDen)

\* _calc_binary_shares, lines 264-307, with the prices at hand: the
\* quantities it computes and logs, the pair it returns (num_shares,
\* available_shares) and what the pool's list of token amounts holds
\* afterwards (token_amounts is the pool's own list, and pop removes from it)
PricedShares(bet, prices, net_bet_amount, vote) ==
    LET token_amounts == bet.outcomeTokenAmounts
        k == prod(token_amounts)
        bet_per_token == TrueDiv(net_bet_amount, BINARY_N_SLOTS)
        tokens_traded ==
            [i \in 1..BINARY_N_SLOTS |->
                IntOfFloat(FloatDiv(bet_per_token, prices[i]))]
        selected == Pop(tokens_traded, vote)
        other == PopLast(selected[2])
        selected_pool == Pop(token_amounts, vote)
        other_pool == PopLast(selected_pool[2])
        tokens_remaining_in_pool ==
            IntOfFloat(TrueDiv(k, other_pool[1] + other[1]))
        swapped_shares == selected_pool[1] - tokens_remaining_in_pool
    IN  [k |-> k,
         price_divisions |-> BINARY_N_SLOTS,
         tokens_traded |-> tokens_traded,
         selected_shares |-> selected[1],
         other_shares |-> other[1],
         selected_type_tokens_in_pool |-> selected_pool[1],
         other_tokens_in_pool |-> other_pool[1],
         tokens_remaining_in_pool |-> tokens_remaining_in_pool,
         swapped_shares |-> swapped_shares,
         num_shares |-> selected[1] + swapped_shares,
         available_shares |->
             IntOfFloat(FloatMul(FloatOfInt(selected_pool[1]),
                                 prices[vote + 1])),
         amounts_after |-> other_pool[2]]

\* _calc_binary_shares, lines 248-263: without prices it returns 0, 0
CalcBinaryShares(bet, net_bet_amount, vote) ==
    IF bet.outcomeTokenMarginalPrices = None
    THEN [k |-> prod(bet.outcomeTokenAmounts),
          price_divisions |-> 0,
          tokens_traded |-> <<>>,
          selected_shares |-> 0,
          other_shares |-> 0,
          selected_type_tokens_in_pool |-> 0,
          other_tokens_in_pool |-> 0,
          tokens_remaining_in_pool |-> 0,
          swapped_shares |-> 0,
          num_shares |-> 0,
          available_shares |-> 0,
          amounts_after |-> bet.outcomeTokenAmounts]
    ELSE PricedShares(bet, bet.outcomeTokenMarginalPrices[1],
                      net_bet_amount, vote)

\* a stake that is not clamped
BetAmountUnclamped(bet_amount, bet_threshold) == bet_amount

\* a stake that is folded around the floor instead of clamped at it
BetAmountFolded(bet_amount, bet_threshold) ==
    IF bet_amount >= bet_threshold
    THEN bet_amount
    ELSE bet_threshold + (bet_threshold - bet_amount)

\* line 348: the stake is the recommended one, clamped from below
BetAmount(bet_amount, bet_threshold) == Max(bet_amount, bet_threshold)

\* a threshold that is used as configured
EffectiveThresholdRaw(bet_threshold) == bet_threshold

\* lines 366-371: a non-positive threshold is disabled
EffectiveThreshold(bet_threshold) ==
    IF bet_threshold <= 0 THEN 0 ELSE bet_threshold

\* a profit that forgets the threshold
PotentialProfitNoThreshold(num_shares, net_bet_amount, bet_threshold) ==
    num_shares - net_bet_amount

\* line 373
PotentialNetProfit(num_shares, net_bet_amount, bet_threshold) ==
    num_shares - net_bet_amount - bet_threshold

\* line 360: num_shares > available_shares * SLIPPAGE (an int against a float)
LiquidityWarning(num_shares, available_shares) ==
    LET limit == FloatMul(FloatOfInt(available_shares), SLIPPAGE)
    IN  num_shares * limit[2] > limit[1]

\* a verdict that the slippage check blocks
VerdictBlockedBySlippage(bet_amount, net_bet_amount, shares, bet_threshold) ==
    [bet_amount |-> bet_amount,
     net_bet_amount |-> net_bet_amount,
     shares |-> shares,
     liquidity_warning |->
         LiquidityWarning(shares.num_shares, shares.available_shares),
     threshold_warning |-> (bet_threshold <= 0),
     threshold |-> EffectiveThreshold(bet_threshold),
     potential_net_profit |->
         PotentialNetProfit(shares.num_shares, net_bet_amount,
                            EffectiveThreshold(bet_threshold)),
     is_profitable |->
         /\ ~LiquidityWarning(shares.num_shares, shares.available_shares)
         /\ PotentialNetProfit(shares.num_shares, net_bet_amount,
                               EffectiveThreshold(bet_threshold)) >= 0]

\* lines 359-386 with the shares at hand
Verdict(bet_amount, net_bet_amount, shares, bet_threshold) ==
    [bet_amount |-> bet_amount,
     net_bet_amount |-> net_bet_amount,
     shares |-> shares,
     liquidity_warning |->
         LiquidityWarning(shares.num_shares, shares.available_shares),
     threshold_warning |-> (bet_threshold <= 0),
     threshold |-> EffectiveThreshold(bet_threshold),
     potential_net_profit |->
         PotentialNetProfit(shares.num_shares, net_bet_amount,
                            EffectiveThreshold(bet_threshold)),
     is_profitable |->
         (PotentialNetProfit(shares.num_shares, net_bet_amount,
                             EffectiveThreshold(bet_threshold)) >= 0)]

\* lines 352-357 with the stake at hand
NetAndShares(b, vote, bet_amount, net_bet_amount, bet_threshold) ==
    Verdict(bet_amount, net_bet_amount,
            CalcBinaryShares(b, net_bet_amount, vote), bet_threshold)

\* _is_profitable from line 347 on, get_bet_amount having returned
\* recommended_amount: what it computes, logs and returns
IsProfitable(b, vote, recommended_amount, bet_threshold) ==
    NetAndShares(b, vote, BetAmount(recommended_amount, bet_threshold),
                 RemoveFractionWei(BetAmount(recommended_amount, bet_threshold),
                                   b.fee),
                 bet_threshold)

-----------------------------------------------------------------------------
(* DecisionMakerAbciApp: the rounds of the decision-making and the events
   that move the app from one to the next (rounds.py) *)

\* initial_round_cls
initial_round_cls == "SamplingRound"

\* AgentDecisionMakerRoundBehaviour.initial_behaviour_cls
initial_behaviour_cls == "DecisionMakerBehaviour"

\* AgentDecisionMakerRoundBehaviour.behaviours
behaviours ==
    {"SamplingBehaviour", "DecisionMakerBehaviour", "BlacklistingBehaviour",
     "BetPlacementBehaviour"}

\* matching_round of the behaviours of the decision-making: each one has the
\* round of its name
MatchingRound(behaviour) ==
    CASE behaviour = "SamplingBehaviour" -> "SamplingRound"
      [] behaviour = "DecisionMakerBehaviour" -> "DecisionMakerRound"
      [] behaviour = "BlacklistingBehaviour" -> "BlacklistingRound"
      [] behaviour = "BetPlacementBehaviour" -> "BetPlacementRound"

\* the behaviour that is run in a round: the one of behaviours that has the
\* round as its matching round, none in a final round
BehaviourOf(round) ==
    IF \E b \in behaviours : MatchingRound(b) = round
    THEN Some(CHOOSE b \in behaviours : MatchingRound(b) = round)
    ELSE None

\* the app and its round behaviour as they are constructed
AppIdle ==
    /\ appRound = initial_round_cls
    /\ appTrail = <<>>
    /\ appBehaviour = Some(initial_behaviour_cls)

\* a sampling that goes straight to the bet placement
SamplingRoundSkippingDecision ==
    { <<"SamplingRound", "DONE", "BetPlacementRound">>,
      <<"SamplingRound", "NONE", "ImpossibleRound">>,
      <<"SamplingRound", "NO_MAJORITY", "SamplingRound">>,
      <<"SamplingRound", "ROUND_TIMEOUT", "SamplingRound">> }

\* transition_function[SamplingRound]
SamplingRoundTransitions ==
    { <<"SamplingRound", "DONE", "DecisionMakerRound">>,
      <<"SamplingRound", "NONE", "ImpossibleRound">>,
      <<"SamplingRound", "NO_MAJORITY", "SamplingRound">>,
      <<"SamplingRound", "ROUND_TIMEOUT", "SamplingRound">> }

\* a decision round that places the unprofitable bets
DecisionMakerRoundBettingUnprofitable ==
    { <<"DecisionMakerRound", "DONE", "BetPlacementRound">>,
      <<"DecisionMakerRound", "MECH_RESPONSE_ERROR", "BlacklistingRound">>,
      <<"DecisionMakerRound", "NO_MAJORITY", "DecisionMakerRound">>,
      <<"DecisionMakerRound", "NON_BINARY", "ImpossibleRound">>,
      <<"DecisionMakerRound", "TIE", "BlacklistingRound">>,
      <<"DecisionMakerRound", "UNPROFITABLE", "BetPlacementRound">>,
      <<"DecisionMakerRound", "ROUND_TIMEOUT", "DecisionMakerRound">> }

\* transition_function[DecisionMakerRound]
DecisionMakerRoundTransitions ==
    { <<"DecisionMakerRound", "DONE", "BetPlacementRound">>,
      <<"DecisionMakerRound", "MECH_RESPONSE_ERROR", "BlacklistingRound">>,
      <<"DecisionMakerRound", "NO_MAJORITY", "DecisionMakerRound">>,
      <<"DecisionMakerRound", "NON_BINARY", "ImpossibleRound">>,
      <<"DecisionMakerRound", "TIE", "BlacklistingRound">>,
      <<"DecisionMakerRound", "UNPROFITABLE", "BlacklistingRound">>,
      <<"DecisionMakerRound", "ROUND_TIMEOUT", "DecisionMakerRound">> }

\* a blacklisting that starts the sampling again when it has no result
BlacklistingRoundRestarting ==
    { <<"BlacklistingRound", "DONE", "FinishedWithoutDecisionRound">>,
      <<"BlacklistingRound", "NONE", "SamplingRound">>,
      <<"BlacklistingRound", "NO_MAJORITY", "BlacklistingRound">>,
      <<"BlacklistingRound", "ROUND_TIMEOUT", "BlacklistingRound">>,
      <<"BlacklistingRound", "FETCH_ERROR", "ImpossibleRound">> }

\* transition_function[BlacklistingRound]
BlacklistingRoundTransitions ==
    { <<"BlacklistingRound", "DONE", "FinishedWithoutDecisionRound">>,
      <<"BlacklistingRound", "NONE", "ImpossibleRound">>,
      <<"BlacklistingRound", "NO_MAJORITY", "BlacklistingRound">>,
      <<"BlacklistingRound", "ROUND_TIMEOUT", "BlacklistingRound">>,
      <<"BlacklistingRound", "FETCH_ERROR", "ImpossibleRound">> }

\* a bet placement that a timeout finishes
BetPlacementRoundFinishedByTimeout ==
    { <<"BetPlacementRound", "DONE", "FinishedDecisionMakerRound">>,
      <<"BetPlacementRound", "NONE", "ImpossibleRound">>,
      <<"BetPlacementRound", "NO_MAJORITY", "BetPlacementRound">>,
      <<"BetPlacementRound", "ROUND_TIMEOUT", "FinishedDecisionMakerRound">> }

\* transition_function[BetPlacementRound]
BetPlacementRoundTransitions ==
    { <<"BetPlacementRound", "DONE", "FinishedDecisionMakerRound">>,
      <<"BetPlacementRound", "NONE", "ImpossibleRound">>,
      <<"BetPlacementRound", "NO_MAJORITY", "BetPlacementRound">>,
      <<"BetPlacementRound", "ROUND_TIMEOUT", "BetPlacementRound">> }

\* transition_function, as the set of <<round, event, next round>>; the three
\* final rounds have the empty table
transition_function ==
    SamplingRoundTransitions \cup DecisionMakerRoundTransitions
        \cup BlacklistingRoundTransitions \cup BetPlacementRoundTransitions

\* final_states
final_states ==
    {"FinishedDecisionMakerRound", "FinishedWithoutDecisionRound",
     "ImpossibleRound"}

\* the keys of transition_function
AppRounds ==
    {"SamplingRound", "DecisionMakerRound", "BlacklistingRound",
     "BetPlacementRound"} \cup final_states

\* the events that are there for the rounds that miss their result
RetryEvents == {"NO_MAJORITY", "ROUND_TIMEOUT"}

\* the entries of a trail that changed the round, and those that did not
RoundChanges(trail) == SelectSeq(trail, LAMBDA t : t[1] # t[3])

RoundStays(trail) == SelectSeq(trail, LAMBDA t : t[1] = t[3])

\* the current round ends with the event of the entry t of its table: the
\* app moves to the round the table gives
AppEvent(t) ==
    /\ t \in transition_function
    /\ t[1] = appRound
    /\ IF t[1] = t[3]
       THEN Len(RoundStays(appTrail)) < MaxStays
       ELSE Len(RoundChanges(appTrail)) < MaxChanges
    /\ appRound' = t[3]
    /\ appTrail' = Append(appTrail, t)
    /\ appBehaviour' = BehaviourOf(t[3])
    /\ UNCHANGED <<cutVars, actVars, prevOut, uiVars>>

\* the round ends with NO_MAJORITY or ROUND_TIMEOUT
AppRetry ==
    \E t \in transition_function : t[2] \in RetryEvents /\ AppEvent(t)

\* the round ends with one of its other events
AppAdvance ==
    \E t \in transition_function : t[2] \notin RetryEvents /\ AppEvent(t)

-----------------------------------------------------------------------------
(* ComponentLoadingAbciApp (ui_loader_abci/rounds.py) and SetupBehaviour
   (ui_loader_abci/behaviours.py) *)

\* ComponentLoadingAbciApp.initial_round_cls
ui_initial_round_cls == "SetupRound"

\* transition_function[SetupRound]
UiSetupRoundTransitions ==
    { <<"SetupRound", "DONE", "HealthcheckRound">>,
      <<"SetupRound", "ERROR", "ErrorRound">> }

\* transition_function[HealthcheckRound]
UiHealthcheckRoundTransitions ==
    { <<"HealthcheckRound", "DONE", "DoneRound">>,
      <<"HealthcheckRound", "ERROR", "ErrorRound">> }

\* an error round that goes on with the health check
UiErrorRoundSkippingSetup ==
    { <<"ErrorRound", "DONE", "HealthcheckRound">> }

\* transition_function[ErrorRound]
UiErrorRoundTransitions ==
    { <<"ErrorRound", "DONE", "SetupRound">> }

\* ComponentLoadingAbciApp.transition_function, as the set of
\* <<round, event, next round>>; DoneRound has the empty table
ui_transition_function ==
    UiSetupRoundTransitions \cup UiHealthcheckRoundTransitions
        \cup UiErrorRoundTransitions

\* ComponentLoadingAbciApp.final_states
ui_final_states == {"DoneRound"}

\* a file of the directory "frontend": its path below the directory, as the
\* sequence of its parts, and its bytes
File(path, data) == [path |-> path, data |-> data]

\* a frontend with all its files below build, in the version v
BuiltFrontend(v) ==
    { File(<<"build", "index.html">>, v),
      File(<<"build", "static", "main.js">>, v) }

\* a frontend that also has a file beside build
FrontendWithReadme(v) ==
    BuiltFrontend(v) \cup { File(<<"README.md">>, v) }

\* generate_routes over the files of the directory: the path of each file
\* relative to frontend/build with its bytes; relative_to raises ValueError
\* for a file that is not below build, and no routes are returned then
GenerateRoutes(files) ==
    IF \E f \in files : f.path[1] # "build"
    THEN [fault |-> Some("ValueError"), routes |-> None]
    ELSE [fault |-> None,
          routes |-> Some({ [route |-> Tail(f.path), data |-> f.data] :
                              f \in files })]

\* load_ui, lines 181-184, over the files the directory holds: the routes
\* are put into the shared state and load_ui is suspended at line 184
GenerateAndYield(files) ==
    /\ uiLogged' = uiLogged \cup {"Generating routes..."}
           \cup (IF GenerateRoutes(files).fault = None
                 THEN {"Routes generated."}
                 ELSE {})
    /\ IF GenerateRoutes(files).fault = None
       THEN /\ routes' = GenerateRoutes(files).routes
            /\ setupPc' = "yielded_done"
            /\ UNCHANGED uiFault
       ELSE /\ uiFault' = GenerateRoutes(files).fault
            /\ setupPc' = "fault"
            /\ UNCHANGED routes

\* the UI loader with the UI disabled and nothing on the disk
UiOff ==
    /\ uiEnabled = FALSE
    /\ ipfsFiles = {}
    /\ frontend = {}
    /\ routes = None
    /\ uiRound = ui_initial_round_cls
    /\ uiTrail = <<>>
    /\ setupPc = "start"
    /\ setupData = None
    /\ downloaded = None
    /\ routesPre = None
    /\ uiLogged = {}
    /\ uiFault = None

\* the app and the behaviour of its first round as they are constructed
UiIdle ==
    /\ uiRound = ui_initial_round_cls
    /\ uiTrail = <<>>
    /\ setupPc = "start"
    /\ setupData = None
    /\ downloaded = None
    /\ routesPre = routes
    /\ uiLogged = {}
    /\ uiFault = None

\* SetupBehaviour.async_act from its start to its first suspension: with the
\* UI disabled the payload of line 159, else load_ui up to its first yield,
\* the download of line 174 failing or not
SetupAct ==
    /\ uiRound = "SetupRound"
    /\ setupPc = "start"
    /\ routesPre' = routes
    /\ IF ~uiEnabled
       THEN /\ setupData' = Some("DONE")
            /\ setupPc' = "send"
            /\ UNCHANGED <<frontend, routes, downloaded, uiLogged, uiFault>>
       ELSE /\ \E ok \in BOOLEAN :
                 /\ downloaded' = Some(ok)
                 /\ IF ok
                    THEN /\ frontend' = ipfsFiles
                         /\ GenerateAndYield(ipfsFiles)
                    ELSE /\ uiLogged' = uiLogged
                                \cup {"Failed to download frontend from IPFS."}
                         /\ setupPc' = "yielded_error"
                         /\ UNCHANGED <<frontend, routes, uiFault>>
            /\ UNCHANGED setupData
    /\ UNCHANGED <<cutVars, actVars, prevOut, appVars, uiRound, uiTrail,
                   uiEnabled, ipfsFiles>>

\* the generator is resumed after a yield of load_ui: after the yield of
\* line 178 load_ui goes on with lines 181-184; after the yield of line 184
\* it ends without a return value, which is what line 158 assigns and line
\* 159 puts into the payload
SetupResume ==
    /\ uiRound = "SetupRound"
    /\ setupPc \in {"yielded_error", "yielded_done"}
    /\ IF setupPc = "yielded_error"
       THEN /\ GenerateAndYield(frontend)
            /\ UNCHANGED setupData
       ELSE /\ setupData' = Some("None")
            /\ setupPc' = "send"
            /\ UNCHANGED <<routes, uiLogged, uiFault>>
    /\ UNCHANGED <<cutVars, actVars, prevOut, appVars, uiRound, uiTrail,
                   uiEnabled, ipfsFiles, frontend, downloaded, routesPre>>

\* lines 163-164: the payload is sent and the behaviour waits for the end of
\* the round
SetupSend ==
    /\ uiRound = "SetupRound"
    /\ setupPc = "send"
    /\ setupPc' = "wait"
    /\ UNCHANGED <<cutVars, actVars, prevOut, appVars, uiRound, uiTrail,
                   uiEnabled, ipfsFiles, frontend, routes, setupData,
                   downloaded, routesPre, uiLogged, uiFault>>

\* the current round ends with the event of the entry t of its table: the
\* app moves to the round the table gives, and a round that is SetupRound
\* gets a new SetupBehaviour
UiEvent(t) ==
    /\ t \in ui_transition_function
    /\ t[1] = uiRound
    /\ Len(uiTrail) < MaxUiEvents
    /\ uiRound' = t[3]
    /\ uiTrail' = Append(uiTrail, t)
    /\ setupPc' = IF t[3] = "SetupRound" THEN "start" ELSE "idle"
    /\ setupData' = None
    /\ downloaded' = None
    /\ routesPre' = routes
    /\ uiLogged' = {}
    /\ uiFault' = None
    /\ UNCHANGED <<cutVars, actVars, prevOut, appVars, uiEnabled, ipfsFiles,
                   frontend, routes>>

\* the round ends with one of its events
UiRoundEnd == \E t \in ui_transition_function : UiEvent(t)

-----------------------------------------------------------------------------
(* The datasets the replay source starts from *)

\* ways a first field is written in the file
FieldTexts ==
    { <<"a">>,
      <<QUOTE, "a", QUOTE>>,
      <<QUOTE, "a", COMMA, "b", QUOTE>>,
      <<QUOTE, "a", SEMICOLON, "b", QUOTE>>,
      <<QUOTE, "a", QUOTE, QUOTE, "b", QUOTE>>,
      <<"a", COMMA, "b">> }

HeaderLine(s) == <<"h1", s, "h2">>

\* the data lines: two fields under the separator s
RowLines(s) ==
    { l \in { f \o <<s, "z">> : f \in FieldTexts } : Len(ParseLine(l, s)) = 2 }

SeqsUpTo(S, n) == UNION { [1..k -> S] : k \in 0..n }

Datasets(s) ==
    {<<>>} \cup { <<HeaderLine(s)>> \o rows : rows \in SeqsUpTo(RowLines(s), MaxRows) }

\* the rows a DictReader yields from a file, in order
RECURSIVE RowsFrom(_, _, _)
RowsFrom(file, pos, s) ==
    LET nr == NextRow(file, pos, s) IN
    IF nr[1] = None THEN <<>> ELSE <<nr[1][1]>> \o RowsFrom(file, nr[2], s)

Records(file, s) == RowsFrom(file, 2, s)

-----------------------------------------------------------------------------
(* _cut_dataset_row, one action per step *)

Result(kind, row) == [kind |-> kind, row |-> row]

InitCut ==
    /\ sep \in {COMMA, SEMICOLON}
    /\ dataset \in Datasets(sep)
    /\ original = dataset
    /\ callPre = dataset
    /\ cutPc = "idle"
    /\ rdPos = 1
    /\ headers = None
    /\ cutRow = None
    /\ tmpState = "none"
    /\ tmpDisk = <<>>
    /\ tmpBuf = <<>>
    /\ tmpLeaked = FALSE
    /\ returned = <<>>
    /\ lastResult = Result("start", None)
    /\ crashes = 0
    /\ logged = {}
    /\ benchmarking = TRUE
    /\ poolFee = 0
    /\ betThreshold = 0
    /\ mechResponses = <<>>
    /\ mechResponse = None
    /\ mockData = None
    /\ pool = Bet(<<>>, None, 0)
    /\ betPre = None
    /\ pc = "start"
    /\ decision = [vote |-> None, p_yes |-> None, p_no |-> None,
                   win_probability |-> None, confidence |-> None]
    /\ sizingCalls = 0
    /\ recommended = None
    /\ evalOut = None
    /\ payload = None
    /\ submitted = 0
    /\ fault = None
    /\ cycles = 1
    /\ prevOut = None
    /\ AppIdle
    /\ UiOff

\* lines 99-119: create the temporary file, open the dataset, read the header
\* and the first row, write the header
CutOpen ==
    /\ cutPc = "idle"
    /\ callPre' = dataset
    /\ tmpDisk' = <<>>
    /\ LET first == NextRow(dataset, 2, sep)
           names == FieldNames(dataset, sep)
       IN  IF first[1] = None
           THEN \* line 109: return None; the temporary file stays behind
                /\ lastResult' = Result("none", None)
                /\ tmpLeaked' = TRUE
                /\ UNCHANGED <<cutPc, rdPos, headers, cutRow, tmpState,
                               tmpBuf, logged>>
           ELSE IF names = None
           THEN \* lines 113-117
                /\ logged' = logged \cup {"The dataset has no headers!"}
                /\ lastResult' = Result("none", None)
                /\ tmpLeaked' = TRUE
                /\ UNCHANGED <<cutPc, rdPos, headers, cutRow, tmpState,
                               tmpBuf>>
           ELSE /\ headers' = names
                /\ cutRow' = first[1]
                /\ rdPos' = first[2]
                /\ tmpState' = "open"
                /\ tmpBuf' = <<SerializedHeader(names[1], sep)>>
                /\ cutPc' = "rows"
                /\ UNCHANGED <<lastResult, tmpLeaked, logged>>
    /\ UNCHANGED <<sep, dataset, original, returned, crashes>>
    /\ UNCHANGED <<actVars, prevOut, appVars, uiVars>>

\* lines 122-139: one turn of the loop; the writer's buffer may reach the file
\* system when it fills up
CutWriteRow ==
    /\ cutPc = "rows"
    /\ LET nr == NextRow(dataset, rdPos, sep) IN
       IF nr[1] = None
       THEN /\ cutPc' = "replace"
            /\ UNCHANGED <<rdPos, tmpState, tmpDisk, tmpBuf, tmpLeaked,
                           lastResult>>
       ELSE IF RowRaises(nr[1][1])
       THEN \* a TypeError leaves the function
            /\ cutPc' = "idle"
            /\ lastResult' = Result("TypeError", None)
            /\ tmpState' = "none"
            /\ tmpLeaked' = TRUE
            /\ tmpBuf' = <<>>
            /\ tmpDisk' = <<>>
            /\ UNCHANGED rdPos
       ELSE /\ rdPos' = nr[2]
            /\ \E flush \in BOOLEAN :
                 LET buf == Append(tmpBuf, SerializedRow(nr[1][1], sep)) IN
                 IF flush
                 THEN tmpDisk' = tmpDisk \o buf /\ tmpBuf' = <<>>
                 ELSE tmpDisk' = tmpDisk /\ tmpBuf' = buf
            /\ UNCHANGED <<cutPc, tmpState, tmpLeaked, lastResult>>
    /\ UNCHANGED <<sep, dataset, original, callPre, headers, cutRow,
                   returned, crashes, logged>>
    /\ UNCHANGED <<actVars, prevOut, appVars, uiVars>>

\* line 142: os.replace(write_dataset.name, dataset_filepath)
CutReplace ==
    /\ cutPc = "replace"
    /\ dataset' = tmpDisk
    /\ tmpState' = "replaced"
    /\ cutPc' = "close"
    /\ UNCHANGED <<sep, original, callPre, rdPos, headers, cutRow, tmpDisk,
                   tmpBuf, tmpLeaked, returned, lastResult, crashes, logged>>
    /\ UNCHANGED <<actVars, prevOut, appVars, uiVars>>

\* a close that drops what the writer still buffers
CutCloseWithoutFlush ==
    /\ cutPc = "close"
    /\ dataset' = dataset
    /\ tmpBuf' = <<>>
    /\ tmpDisk' = <<>>
    /\ tmpState' = "closed"
    /\ cutPc' = "unlink"
    /\ UNCHANGED <<sep, original, callPre, rdPos, headers, cutRow,
                   tmpLeaked, returned, lastResult, crashes, logged>>
    /\ UNCHANGED <<actVars, prevOut, appVars, uiVars>>

\* line 143: write_dataset.close() flushes the buffer into the file the
\* descriptor refers to, which is now the file at dataset_filepath
CutClose ==
    /\ cutPc = "close"
    /\ dataset' = dataset \o tmpBuf
    /\ tmpBuf' = <<>>
    /\ tmpDisk' = <<>>
    /\ tmpState' = "closed"
    /\ cutPc' = "unlink"
    /\ UNCHANGED <<sep, original, callPre, rdPos, headers, cutRow,
                   tmpLeaked, returned, lastResult, crashes, logged>>
    /\ UNCHANGED <<actVars, prevOut, appVars, uiVars>>

\* lines 144-149: os.unlink raises FileNotFoundError, which is caught; return
CutReturn ==
    /\ cutPc = "unlink"
    /\ tmpState' = "none"
    /\ returned' = Append(returned, cutRow[1])
    /\ lastResult' = Result("row", cutRow)
    /\ cutPc' = "idle"
    /\ UNCHANGED <<sep, dataset, original, callPre, rdPos, headers, cutRow,
                   tmpDisk, tmpBuf, tmpLeaked, crashes, logged>>
    /\ UNCHANGED <<actVars, prevOut, appVars, uiVars>>

\* the process is killed inside the call: what the writer buffered is lost
CutCrash ==
    /\ cutPc \in {"rows", "replace", "close", "unlink"}
    /\ crashes < MaxCrashes
    /\ crashes' = crashes + 1
    /\ cutPc' = "idle"
    /\ lastResult' = Result("crash", None)
    /\ tmpLeaked' = (tmpLeaked \/ tmpState = "open")
    /\ tmpState' = "none"
    /\ tmpBuf' = <<>>
    /\ tmpDisk' = <<>>
    /\ UNCHANGED <<sep, dataset, original, callPre, rdPos, headers, cutRow,
                   returned, logged>>
    /\ UNCHANGED <<actVars, prevOut, appVars, uiVars>>

NextCut ==
    \/ CutOpen
    \/ CutWriteRow
    \/ CutReplace
    \/ CutClose
    \/ CutReturn
    \/ CutCrash

SpecCut == InitCut /\ [][NextCut]_vars

-----------------------------------------------------------------------------
(* The oracle's responses and the forecast *)

\* MechInteractionResponse(result, error)
Response(result, error) == [result |-> result, error |-> error]

\* the text of a result: either no JSON at all, or a JSON object with its
\* keys p_yes, p_no, confidence, info_utility (each value a string of tokens,
\* or None for a key that is not there)
NotJson == [json |-> FALSE, obj |-> None]
\* a JSON text that is not an object (a list, a number, null)
JsonNotObject == [json |-> TRUE, obj |-> None]
JsonObject(p_yes, p_no, confidence, info_utility) ==
    [json |-> TRUE,
     obj  |-> Some([p_yes |-> p_yes, p_no |-> p_no,
                    confidence |-> confidence,
                    info_utility |-> info_utility])]

\* float(text) of the number texts of the model, in tenths
NumberTexts == { <<"0.0">>, <<"0.3">>, <<"0.5">>, <<"0.7">>, <<"0.8">>, <<"0">> }
NumberOf(text) ==
    CASE text = <<"0.3">> -> 3
      [] text = <<"0.5">> -> 5
      [] text = <<"0.7">> -> 7
      [] text = <<"0.8">> -> 8
      [] OTHER -> 0

\* PredictionResponse(**json.loads(text)): the forecast, None when the text
\* is rejected
PredictionResponse(text) ==
    IF ~text.json THEN None
    ELSE LET o == text.obj[1] IN
         IF \E v \in {o.p_yes, o.p_no, o.confidence, o.info_utility} :
                v \notin NumberTexts
         THEN None
         ELSE LET y == NumberOf(o.p_yes)
                  n == NumberOf(o.p_no)
              IN  Some([vote |-> IF y > n THEN Some(0)
                                 ELSE IF n > y THEN Some(1) ELSE None,
                        p_yes |-> Some(y),
                        p_no |-> Some(n),
                        win_probability |-> Some(Max(y, n)),
                        confidence |-> Some(NumberOf(o.confidence))])

\* line 220, PredictionResponse(**json.loads(result)), under the except of
\* line 221: json.loads raises JSONDecodeError on a text that is no JSON, **
\* raises TypeError on a value that is no mapping, and the constructor
\* rejects the rest; only JSONDecodeError and ValueError are caught
LoadPrediction(text) ==
    IF ~text.json
    THEN [fault |-> None, result |-> None]
    ELSE IF text.obj = None
    THEN [fault |-> Some("TypeError"), result |-> None]
    ELSE [fault |-> None, result |-> PredictionResponse(text)]

NoDecision ==
    [vote |-> None, p_yes |-> None, p_no |-> None,
     win_probability |-> None, confidence |-> None]

\* the mech_response property
MechResponseProperty(mech) ==
    IF mech = None
    THEN Response(None, "The mech's response has not been set!")
    ELSE mech[1]

-----------------------------------------------------------------------------
(* Replay: _cut_dataset_row as one call, _parse_dataset_row, _mock_response *)

\* the benchmarking configuration
question_id_field == <<"question_id">>
question_field == <<"question">>
answer_field == <<"answer">>
p_yes_field_part == "p_yes_"
p_no_field_part == "p_no_"
confidence_field_part == "confidence_"
part_prefix_mode == TRUE
mech_tool == "tool"

\* _cut_dataset_row run to completion: what it returns and the file it leaves
CutRest(first, names, rest, file, s) ==
    IF \E i \in 1..Len(rest) : RowRaises(rest[i])
    THEN [kind |-> "TypeError", row |-> None, file |-> file]
    ELSE [kind |-> "row", row |-> first[1],
          file |-> <<SerializedHeader(names[1], s)>> \o
                   [i \in 1..Len(rest) |-> SerializedRow(rest[i], s)]]

CutFrom(first, names, file, s) ==
    IF first[1] = None \/ names = None
    THEN [kind |-> "none", row |-> None, file |-> file]
    ELSE CutRest(first, names, RowsFrom(file, first[2], s), file, s)

CutDatasetRow(file, s) ==
    CutFrom(NextRow(file, 2, s), FieldNames(file, s), file, s)

\* row[name] of a row dict: None for a missing key (KeyError); the value
\* itself may be None (restval)
Lookup(hdrs, d, name) ==
    IF \E i \in 1..Len(hdrs) : hdrs[i] = name
    THEN Some(d.fields[CHOOSE i \in 1..Len(hdrs) : hdrs[i] = name])
    ELSE None

FieldName(field_part) ==
    IF part_prefix_mode THEN <<field_part, mech_tool>>
    ELSE <<mech_tool, field_part>>

\* the columns _parse_dataset_row reads
WantedFields ==
    <<question_id_field, question_field, answer_field,
      FieldName(p_yes_field_part), FieldName(p_no_field_part),
      FieldName(confidence_field_part)>>

\* _parse_dataset_row: the mock data and the text of the mocked response;
\* None for a KeyError or a value json.dumps/BenchmarkingMockData cannot take
ParsedRow(vals) ==
    IF \E i \in 1..Len(vals) : vals[i] = None
    THEN None
    ELSE IF \E i \in 1..Len(vals) : vals[i][1] = None
    THEN None
    ELSE Some([mock_data |-> <<vals[1][1][1], vals[2][1][1], vals[3][1][1]>>,
               text |-> JsonObject(vals[4][1][1], vals[5][1][1],
                                   vals[6][1][1], <<"0">>)])

ParseDatasetRow(hdrs, d) ==
    ParsedRow([i \in 1..Len(WantedFields) |-> Lookup(hdrs, d, WantedFields[i])])

-----------------------------------------------------------------------------
(* The decision cycle: DecisionReceiveBehaviour.async_act *)

\* _mock_response: the cut, then the mocked response
MockParsed(parsed, c, mech) ==
    IF parsed = None
    THEN [fault |-> Some("KeyError"), mech |-> mech, file |-> c.file,
          mock |-> None, cut |-> c]
    ELSE [fault |-> None,
          mech |-> Some(Response(Some(parsed[1].text), "Unknown")),
          file |-> c.file, mock |-> Some(parsed[1].mock_data), cut |-> c]

MockCut(c, file, s, mech) ==
    IF c.kind = "TypeError"
    THEN [fault |-> Some("TypeError"), mech |-> mech, file |-> file,
          mock |-> None, cut |-> c]
    ELSE IF c.kind = "none"
    THEN \* line 180: return, self._mech_response is what it was
         [fault |-> None, mech |-> mech, file |-> file, mock |-> None,
          cut |-> c]
    ELSE MockParsed(ParseDatasetRow(FieldNames(file, s)[1], c.row[1]), c, mech)

MockResponse(file, s, mech) == MockCut(CutDatasetRow(file, s), file, s, mech)

\* _get_response: line 191 runs whether or not the list is empty
GetResponse(mech_responses, file) ==
    IF mech_responses = <<>>
    THEN [fault |-> Some("IndexError"),
          mech |-> Some(Response(None, "No Mech responses in synchronized_data.")),
          file |-> file, mock |-> None,
          cut |-> [kind |-> "start", row |-> None, file |-> file]]
    ELSE [fault |-> None, mech |-> Some(mech_responses[1]),
          file |-> file, mock |-> None,
          cut |-> [kind |-> "start", row |-> None, file |-> file]]

\* _get_decision from line 219 on, line 220 having given loaded
Parsed(loaded) ==
    IF loaded.fault # None
    THEN [decision |-> NoDecision, log |-> {}, fault |-> loaded.fault]
    ELSE IF loaded.result = None
    THEN [decision |-> NoDecision,
          log |-> {"Could not parse the mech's response"}, fault |-> None]
    ELSE [decision |-> loaded.result[1], log |-> {}, fault |-> None]

\* a _get_decision without the test of line 208: the unset response is read
\* through the mech_response property
GetDecisionWithoutExhaustion(mech) ==
    IF MechResponseProperty(mech).result = None
    THEN [decision |-> NoDecision,
          log |-> {"There was an error on the mech's response"},
          fault |-> None]
    ELSE Parsed(LoadPrediction(MechResponseProperty(mech).result[1]))

GetDecision(mech) ==
    IF mech = None
    THEN [decision |-> NoDecision, log |-> {"The benchmarking has finished!"},
          fault |-> None]
    ELSE IF MechResponseProperty(mech).result = None
    THEN [decision |-> NoDecision,
          log |-> {"There was an error on the mech's response"},
          fault |-> None]
    ELSE Parsed(LoadPrediction(MechResponseProperty(mech).result[1]))

\* lines 395-401
AllPresent(d) ==
    /\ d.vote # None
    /\ d.p_yes # None
    /\ d.p_no # None
    /\ d.confidence # None
    /\ d.win_probability # None

\* a payload built without the stake
PayloadWithoutStake(is_profitable, vote, confidence, bet_amount) ==
    [is_profitable |-> is_profitable, vote |-> vote,
     confidence |-> confidence, bet_amount |-> None]

\* DecisionReceivePayload(sender, is_profitable, vote, confidence, bet_amount)
Payload(is_profitable, vote, confidence, bet_amount) ==
    [is_profitable |-> is_profitable, vote |-> vote,
     confidence |-> confidence, bet_amount |-> bet_amount]

\* lines 321-334: the pool of the benchmarking mode
BenchmarkBet(fee) ==
    Bet(<<BenchmarkReserve, BenchmarkReserve>>, Some(<<<<1, 2>>, <<1, 2>>>>), fee)

\* lines 393-411 once _get_decision has returned got: either the payload
\* without a decision, or _is_profitable up to the request to the bet-sizing
\* service (line 340), on the pool b
Decided(got, b) ==
    /\ decision' = got.decision
    /\ logged' = logged \cup got.log
    /\ IF got.fault # None
       THEN /\ fault' = got.fault
            /\ pc' = "fault"
            /\ UNCHANGED <<pool, betPre, sizingCalls, payload>>
       ELSE IF AllPresent(got.decision)
       THEN /\ pool' = b
            /\ betPre' = Some(b)
            /\ IF GetBetSampleInfo(b, got.decision.vote[1]) = None
               THEN /\ fault' = Some("IndexError")
                    /\ pc' = "fault"
                    /\ UNCHANGED sizingCalls
               ELSE /\ sizingCalls' = sizingCalls + 1
                    /\ pc' = "sizing"
                    /\ UNCHANGED fault
            /\ UNCHANGED payload
       ELSE /\ payload' = Some(Payload(None, got.decision.vote,
                                       got.decision.confidence, None))
            /\ pc' = "finish"
            /\ UNCHANGED <<pool, betPre, sizingCalls, fault>>

\* _get_decision, lines 203-206, having resolved to r
Resolved(r) ==
    /\ mechResponse' = r.mech
    /\ dataset' = r.file
    /\ IF benchmarking
       THEN /\ callPre' = dataset
            /\ lastResult' = Result(r.cut.kind, r.cut.row)
            /\ returned' = IF r.cut.kind = "row"
                           THEN Append(returned, r.cut.row[1])
                           ELSE returned
            /\ tmpLeaked' = (tmpLeaked \/ r.cut.kind # "row")
            /\ mockData' = IF r.mock = None THEN mockData ELSE r.mock
       ELSE UNCHANGED <<callPre, lastResult, returned, tmpLeaked, mockData>>
    /\ IF r.fault # None
       THEN /\ fault' = r.fault
            /\ pc' = "fault"
            /\ UNCHANGED <<decision, pool, betPre, sizingCalls, payload,
                           logged>>
       ELSE Decided(GetDecision(r.mech),
                    IF benchmarking THEN BenchmarkBet(poolFee) ELSE pool)

\* async_act from its start to its first suspension
ActGetDecision ==
    /\ pc = "start"
    /\ Resolved(IF benchmarking
                THEN MockResponse(dataset, sep, mechResponse)
                ELSE GetResponse(mechResponses, dataset))
    /\ UNCHANGED <<sep, original, cutPc, rdPos, headers, cutRow, tmpState,
                   tmpDisk, tmpBuf, crashes, benchmarking, poolFee,
                   betThreshold, mechResponses, recommended, evalOut,
                   submitted, cycles, prevOut, appVars, uiVars>>

\* lines 347-411 with the outcome out of _is_profitable
Evaluated(out) ==
    /\ evalOut' = Some(out)
    /\ pool' = [pool EXCEPT !.outcomeTokenAmounts = out.shares.amounts_after]
    /\ logged' = logged
           \cup (IF out.liquidity_warning
                 THEN {"Kindly contemplate reducing your bet amount"}
                 ELSE {})
           \cup (IF out.threshold_warning
                 THEN {"A non-positive bet threshold was given"}
                 ELSE {})
    /\ payload' = Some(Payload(Some(out.is_profitable), decision.vote,
                               decision.confidence, Some(out.bet_amount)))

\* async_act resumed with the stake the bet-sizing service recommends: the
\* rest of _is_profitable (lines 347-386) and the payload (lines 405-411)
ActIsProfitable ==
    /\ pc = "sizing"
    /\ \E bet_amount \in 0..MaxStake :
         /\ recommended' = Some(bet_amount)
         /\ Evaluated(IsProfitable(pool, decision.vote[1], bet_amount,
                                   betThreshold))
    /\ pc' = "finish"
    /\ UNCHANGED <<sep, dataset, original, callPre, cutPc, rdPos, headers,
                   cutRow, tmpState, tmpDisk, tmpBuf, tmpLeaked, returned,
                   lastResult, crashes, benchmarking, poolFee, betThreshold,
                   mechResponses, mechResponse, mockData, betPre, decision,
                   sizingCalls, submitted, fault, cycles, prevOut, appVars, uiVars>>

\* line 413: finish_behaviour(payload)
ActFinish ==
    /\ pc = "finish"
    /\ submitted' = submitted + 1
    /\ pc' = "done"
    /\ UNCHANGED <<cutVars, benchmarking, poolFee, betThreshold,
                   mechResponses, mechResponse, mockData, pool, betPre,
                   decision, sizingCalls, recommended, evalOut, payload,
                   fault, cycles, prevOut, appVars, uiVars>>

\* the round is entered again: a new behaviour object (__init__, lines
\* 65-69) over the same dataset file, shared state and pool
ActAgain ==
    /\ pc = "done"
    /\ cycles < MaxCycles
    /\ cycles' = cycles + 1
    /\ pc' = "start"
    /\ decision' = NoDecision
    /\ sizingCalls' = 0
    /\ recommended' = None
    /\ evalOut' = None
    /\ payload' = None
    /\ submitted' = 0
    /\ betPre' = None
    /\ mechResponse' = None
    /\ prevOut' = IF evalOut = None
                  THEN None
                  ELSE Some([recommended |-> recommended[1],
                             is_profitable |-> evalOut[1].is_profitable,
                             bet_amount |-> evalOut[1].bet_amount])
    /\ UNCHANGED <<cutVars, benchmarking, poolFee, betThreshold,
                   mechResponses, mockData, pool, fault, appVars, uiVars>>

\* async_act is run again on the same behaviour object: its local variables
\* are new, the attributes set by __init__ and by the cycle before
\* (_mech_response) are the ones the object has
ActRerun ==
    /\ pc = "done"
    /\ cycles < MaxCycles
    /\ cycles' = cycles + 1
    /\ pc' = "start"
    /\ decision' = NoDecision
    /\ sizingCalls' = 0
    /\ recommended' = None
    /\ evalOut' = None
    /\ payload' = None
    /\ submitted' = 0
    /\ betPre' = None
    /\ prevOut' = IF evalOut = None
                  THEN None
                  ELSE Some([recommended |-> recommended[1],
                             is_profitable |-> evalOut[1].is_profitable,
                             bet_amount |-> evalOut[1].bet_amount])
    /\ UNCHANGED <<cutVars, benchmarking, poolFee, betThreshold,
                   mechResponses, mechResponse, mockData, pool, fault,
                   appVars, uiVars>>

-----------------------------------------------------------------------------
(* The states the cycle starts from *)

ReserveValues == {10, 25}
ThresholdValues == {-1, 0, 4}
FeeValues == {0, 3}

PriceLists ==
    { <<<<1, 2>>, <<1, 2>>>>, <<<<1, 4>>, <<3, 4>>>>, <<<<3, 4>>, <<1, 4>>>> }

Pools ==
    { Bet(<<r0, r1>>, p, f) :
        r0 \in ReserveValues, r1 \in ReserveValues,
        p \in {None} \cup { Some(l) : l \in PriceLists },
        f \in FeeValues }

YesText == JsonObject(<<"0.7">>, <<"0.3">>, <<"0.8">>, <<"0.0">>)
NoText == JsonObject(<<"0.3">>, <<"0.7">>, <<"0.8">>, <<"0.0">>)
TieText == JsonObject(<<"0.5">>, <<"0.5">>, <<"0.8">>, <<"0.0">>)
NonNumericText == JsonObject(<<"high">>, <<"0.3">>, <<"0.8">>, <<"0.0">>)
MissingFieldText == JsonObject(<<"0.7">>, <<"0.3">>, None, <<"0.0">>)
ErrorResponse == Response(None, "mech error")

MechResponseLists ==
    { <<>>,
      <<ErrorResponse>>,
      <<Response(Some(NotJson), "Unknown")>>,
      <<Response(Some(YesText), "Unknown")>>,
      <<Response(Some(NoText), "Unknown")>>,
      <<Response(Some(TieText), "Unknown")>>,
      <<Response(Some(NonNumericText), "Unknown")>>,
      <<Response(Some(MissingFieldText), "Unknown")>>,
      <<Response(Some(JsonNotObject), "Unknown")>>,
      <<Response(Some(YesText), "Unknown"), ErrorResponse>> }

ForecastHeader(s) ==
    Join(<<question_id_field, question_field, answer_field,
           FieldName(p_yes_field_part), FieldName(p_no_field_part),
           FieldName(confidence_field_part)>>, s)

ForecastRow(id, p_yes, p_no, s) ==
    Join(<<<<id>>, <<"will it?">>, <<"yes">>, p_yes, p_no, <<"0.8">>>>, s)

ForecastDatasets(s) ==
    { <<>>,
      <<ForecastHeader(s)>>,
      <<ForecastHeader(s), ForecastRow("q1", <<"0.7">>, <<"0.3">>, s)>>,
      <<ForecastHeader(s), ForecastRow("q1", <<"0.3">>, <<"0.7">>, s)>>,
      <<ForecastHeader(s), ForecastRow("q1", <<"0.7">>, <<"0.3">>, s),
        ForecastRow("q2", <<"0.3">>, <<"0.7">>, s)>> }

\* the replay source at rest
CutIdle ==
    /\ original = dataset
    /\ callPre = dataset
    /\ cutPc = "idle"
    /\ rdPos = 1
    /\ headers = None
    /\ cutRow = None
    /\ tmpState = "none"
    /\ tmpDisk = <<>>
    /\ tmpBuf = <<>>
    /\ tmpLeaked = FALSE
    /\ returned = <<>>
    /\ lastResult = Result("start", None)
    /\ crashes = 0
    /\ logged = {}

\* the behaviour object as __init__ leaves it
ActIdle ==
    /\ mechResponse = None
    /\ mockData = None
    /\ betPre = None
    /\ pc = "start"
    /\ decision = NoDecision
    /\ sizingCalls = 0
    /\ recommended = None
    /\ evalOut = None
    /\ payload = None
    /\ submitted = 0
    /\ fault = None
    /\ cycles = 1

Init ==
    /\ benchmarking \in BOOLEAN
    /\ betThreshold \in ThresholdValues
    /\ IF benchmarking
       THEN /\ sep \in {COMMA, SEMICOLON}
            /\ dataset \in ForecastDatasets(sep)
            /\ poolFee \in FeeValues
            /\ mechResponses = <<>>
            /\ pool = BenchmarkBet(poolFee)
       ELSE /\ sep = COMMA
            /\ dataset = <<>>
            /\ poolFee = 0
            /\ mechResponses \in MechResponseLists
            /\ pool \in Pools
    /\ CutIdle
    /\ ActIdle
    /\ prevOut = None
    /\ AppIdle
    /\ UiOff

Next ==
    \/ ActGetDecision
    \/ ActIsProfitable
    \/ ActFinish
    \/ ActAgain

Spec == Init /\ [][Next]_vars

\* the cycles of one behaviour object
NextRerun ==
    \/ ActGetDecision
    \/ ActIsProfitable
    \/ ActFinish
    \/ ActRerun

SpecRerun == Init /\ [][NextRerun]_vars

\* the app alone, the behaviour being idle in live mode
InitApp ==
    /\ benchmarking = FALSE
    /\ betThreshold = 0
    /\ sep = COMMA
    /\ dataset = <<>>
    /\ poolFee = 0
    /\ mechResponses = <<>>
    /\ pool = Bet(<<>>, None, 0)
    /\ CutIdle
    /\ ActIdle
    /\ prevOut = None
    /\ AppIdle
    /\ UiOff

NextApp ==
    \/ AppRetry
    \/ AppAdvance

SpecApp == InitApp /\ [][NextApp]_vars

\* a round that can end with an event other than NO_MAJORITY and
\* ROUND_TIMEOUT eventually does
SpecAppFair == InitApp /\ [][NextApp]_vars /\ WF_vars(AppAdvance)

\* the UI loader alone, the decision-making being idle
InitUi ==
    /\ benchmarking = FALSE
    /\ betThreshold = 0
    /\ sep = COMMA
    /\ dataset = <<>>
    /\ poolFee = 0
    /\ mechResponses = <<>>
    /\ pool = Bet(<<>>, None, 0)
    /\ CutIdle
    /\ ActIdle
    /\ prevOut = None
    /\ AppIdle
    /\ uiEnabled \in BOOLEAN
    /\ ipfsFiles \in {BuiltFrontend("new"), FrontendWithReadme("new")}
    /\ frontend \in {{}, BuiltFrontend("old")}
    /\ routes \in {None, GenerateRoutes(BuiltFrontend("old")).routes}
    /\ UiIdle

NextUi ==
    \/ SetupAct
    \/ SetupResume
    \/ SetupSend
    \/ UiRoundEnd

SpecUi == InitUi /\ [][NextUi]_vars

-----------------------------------------------------------------------------
(* Properties of the replay source, checked under SpecCut *)

\* C1: at every step of _cut_dataset_row, and after a crash at any step, the
\* file at the dataset path holds either the complete content it had when the
\* call started or the complete content the call leaves (the header and all
\* rows but the first); it is never empty, truncated or partially written.
C1_DatasetNeverPartial ==
    dataset \in {callPre, CutDatasetRow(callPre, sep).file}

\* C2: between calls (no crash), the rows returned so far followed by the rows
\* still in the file are the rows of the original dataset, in order; a call
\* returns None only when no row is left, and no call faults.
C2_RecordsInOrder ==
    (cutPc = "idle" /\ crashes = 0) =>
        /\ Records(original, sep) = returned \o Records(dataset, sep)
        /\ lastResult.kind \in {"start", "row", "none"}
        /\ lastResult.kind = "none" => Records(dataset, sep) = <<>>

-----------------------------------------------------------------------------
(* Properties of the decision cycle, checked under Spec *)

\* _is_profitable has returned in this cycle
HasEvaluated == evalOut # None

\* the exact (untruncated-input, floor-at-each-division) reference of the
\* share computation, for prices given as fractions
RefTokensTraded(prices, net) ==
    [i \in 1..2 |-> (net * prices[i][2]) \div (2 * prices[i][1])]

RefRemaining(amounts, prices, net, vote) ==
    (amounts[1] * amounts[2])
        \div (amounts[2 - vote] + RefTokensTraded(prices, net)[2 - vote])

RefNumShares(amounts, prices, net, vote) ==
    RefTokensTraded(prices, net)[vote + 1] + amounts[vote + 1]
        - RefRemaining(amounts, prices, net, vote)

RefAvailableShares(amounts, prices, vote) ==
    (amounts[vote + 1] * prices[vote + 1][1]) \div prices[vote + 1][2]

\* C3: in live mode with an empty response list, resolving yields the error
\* response (result None, the error text) and no fault; with a response
\* present, the first one is the one used.
C3_NoResponseGivesResolutionError ==
    (~benchmarking /\ pc # "start") =>
        IF mechResponses = <<>>
        THEN /\ fault = None
             /\ mechResponse =
                    Some(Response(None, "No Mech responses in synchronized_data."))
        ELSE mechResponse = Some(mechResponses[1])

\* C4: with the prices absent, evaluate returns exactly
\* (isProfitable = false, stake = 0), whatever the stake, fee and threshold,
\* and divides by no price.
C4_MissingPricesFalseZero ==
    (HasEvaluated /\ betPre[1].outcomeTokenMarginalPrices = None) =>
        /\ evalOut[1].is_profitable = FALSE
        /\ evalOut[1].bet_amount = 0
        /\ evalOut[1].shares.price_divisions = 0

\* C5: after _is_profitable has returned, the pool's reserves and prices are
\* the sequences they were before the call.
C5_PoolUnchanged ==
    HasEvaluated => pool = betPre[1]

\* the recoverable conditions of the cycle: replay corpus exhausted, no live
\* response, a response carrying an error, a forecast that does not parse,
\* missing prices
RecoverableCondition ==
    \/ benchmarking /\ pc # "start" /\ lastResult.kind = "none"
    \/ ~benchmarking /\ mechResponses = <<>>
    \/ ~benchmarking /\ mechResponses # <<>> /\ mechResponses[1].result = None
    \/ /\ pc # "start"
       /\ mechResponse # None
       /\ mechResponse[1].result # None
       /\ LoadPrediction(mechResponse[1].result[1]).result = None
    \/ betPre # None /\ betPre[1].outcomeTokenMarginalPrices = None

\* C6: under each recoverable condition no fault leaves async_act, and the
\* cycle ends having submitted exactly one payload.
C6_OnePayloadNoFault ==
    RecoverableCondition =>
        /\ fault = None
        /\ submitted <= 1
        /\ pc = "done" => submitted = 1

\* C7: with prices present, the calculator's quantities equal the reference
\* computed with exact floors.
C7_SharesEqualReference ==
    (HasEvaluated /\ betPre[1].outcomeTokenMarginalPrices # None) =>
        LET amounts == betPre[1].outcomeTokenAmounts
            prices == betPre[1].outcomeTokenMarginalPrices[1]
            net == evalOut[1].net_bet_amount
            vote == decision.vote[1]
        IN  /\ evalOut[1].shares.k = amounts[1] * amounts[2]
            /\ evalOut[1].shares.tokens_traded = RefTokensTraded(prices, net)
            /\ evalOut[1].shares.tokens_remaining_in_pool =
                   RefRemaining(amounts, prices, net, vote)
            /\ evalOut[1].shares.num_shares =
                   RefNumShares(amounts, prices, net, vote)
            /\ evalOut[1].shares.available_shares =
                   RefAvailableShares(amounts, prices, vote)

\* C8: the verdict is true exactly when numShares - netStake - threshold >= 0,
\* netStake being the stake after the fee and threshold the configured one,
\* or 0 when that is not positive.
C8_VerdictIffNetProfit ==
    HasEvaluated =>
        (evalOut[1].is_profitable <=>
            evalOut[1].shares.num_shares
                - evalOut[1].net_bet_amount
                - (IF betThreshold > 0 THEN betThreshold ELSE 0) >= 0)

\* C8 witness: a profitable verdict with a fee that bites and a positive
\* threshold
C8_Witness ==
    /\ HasEvaluated
    /\ evalOut[1].is_profitable
    /\ betThreshold > 0
    /\ evalOut[1].net_bet_amount < evalOut[1].bet_amount

\* C9: the stake returned is max(recommendedStake, stakeFloor), before the
\* fee, never below the floor, and it is the payload's stake amount.
C9_StakeIsClampedPreFee ==
    HasEvaluated =>
        LET stake == IF recommended[1] >= betThreshold
                     THEN recommended[1] ELSE betThreshold
        IN  /\ evalOut[1].bet_amount = stake
            /\ evalOut[1].bet_amount >= betThreshold
            /\ payload[1].bet_amount = Some(stake)

\* C9 witness: the floor lifts the recommended stake and the fee makes the net
\* stake smaller than the stake returned
C9_Witness ==
    /\ HasEvaluated
    /\ recommended[1] < betThreshold
    /\ evalOut[1].net_bet_amount < evalOut[1].bet_amount
    /\ payload[1].bet_amount = Some(betThreshold)

\* C10: with a threshold <= 0, evaluate returns what it returns with the
\* threshold 0: the same stake, and isProfitable iff numShares - netStake >= 0.
C10_NonPositiveThresholdIsZero ==
    (HasEvaluated /\ betThreshold <= 0) =>
        /\ evalOut[1].is_profitable =
               IsProfitable(betPre[1], decision.vote[1], recommended[1], 0).is_profitable
        /\ evalOut[1].bet_amount =
               IsProfitable(betPre[1], decision.vote[1], recommended[1], 0).bet_amount
        /\ evalOut[1].is_profitable <=>
               (evalOut[1].shares.num_shares - evalOut[1].net_bet_amount >= 0)

\* C10 witness: a negative threshold and a net profit of -1, judged
\* unprofitable
C10_Witness ==
    /\ HasEvaluated
    /\ betThreshold < 0
    /\ evalOut[1].shares.num_shares - evalOut[1].net_bet_amount < 0
    /\ evalOut[1].shares.num_shares - evalOut[1].net_bet_amount >= betThreshold
    /\ ~evalOut[1].is_profitable

\* C11: for both votes the opposite vote is 1 - vote, the selected quantities
\* of the calculator are those at index vote and the other ones those at
\* index 1 - vote, for the traded tokens and for the reserves, and
\* _get_bet_sample_info returns the same pair of reserves.
C11_SelectionMatchesIndexing ==
    (HasEvaluated /\ betPre[1].outcomeTokenMarginalPrices # None) =>
        LET amounts == betPre[1].outcomeTokenAmounts
            vote == decision.vote[1]
            sh == evalOut[1].shares
        IN  /\ vote \in {0, 1}
            /\ Xor1(vote) = 1 - vote
            /\ sh.selected_shares = sh.tokens_traded[vote + 1]
            /\ sh.other_shares = sh.tokens_traded[(1 - vote) + 1]
            /\ sh.selected_type_tokens_in_pool = amounts[vote + 1]
            /\ sh.other_tokens_in_pool = amounts[(1 - vote) + 1]
            /\ GetBetSampleInfo(betPre[1], vote) =
                   Some(<<amounts[vote + 1], amounts[(1 - vote) + 1]>>)

\* C11 witness: a vote for outcome 0 on a pool whose two reserves differ and
\* whose two traded amounts differ
C11_Witness ==
    /\ HasEvaluated
    /\ betPre[1].outcomeTokenMarginalPrices # None
    /\ decision.vote = Some(0)
    /\ betPre[1].outcomeTokenAmounts[1] # betPre[1].outcomeTokenAmounts[2]
    /\ evalOut[1].shares.tokens_traded[1] # evalOut[1].shares.tokens_traded[2]
    /\ evalOut[1].shares.selected_shares = evalOut[1].shares.tokens_traded[1]

\* C12: the pool invariant k = reserve[vote] * reserve[opposite] taken before
\* the trade equals remaining * (reserve[opposite] + otherShares) up to the
\* truncation of one division: remaining is the exact quotient truncated,
\* less than 1 away from it.
C12_RemainingIsTruncatedQuotient ==
    (HasEvaluated /\ betPre[1].outcomeTokenMarginalPrices # None) =>
        LET sh == evalOut[1].shares
            k == betPre[1].outcomeTokenAmounts[1]
                     * betPre[1].outcomeTokenAmounts[2]
            divisor == sh.other_tokens_in_pool + sh.other_shares
        IN  /\ sh.tokens_remaining_in_pool * divisor <= k
            /\ k < (sh.tokens_remaining_in_pool + 1) * divisor

\* the share count of the same formulas in exact rational arithmetic, as a
\* fraction <<numerator, denominator>> with a positive denominator:
\* net/(2 p[vote]) + reserve[vote] - k / (reserve[opp] + net/(2 p[opp]))
ExactNumShares(amounts, prices, net, vote) ==
    LET a == net * prices[vote + 1][2]
        b == 2 * prices[vote + 1][1]
        c == net * prices[2 - vote][2]
        d == 2 * prices[2 - vote][1]
        e == amounts[2 - vote] * d + c
    IN  <<a * e + amounts[vote + 1] * b * e - amounts[1] * amounts[2] * d * b,
          b * e>>

\* C13: the integer numShares of the calculator never exceeds the share count
\* of the same formulas in exact arithmetic.
C13_SharesNeverOverestimated ==
    (HasEvaluated /\ betPre[1].outcomeTokenMarginalPrices # None) =>
        evalOut[1].shares.num_shares
                * ExactNumShares(betPre[1].outcomeTokenAmounts,
                                 betPre[1].outcomeTokenMarginalPrices[1],
                                 evalOut[1].net_bet_amount,
                                 decision.vote[1])[2]
            <= ExactNumShares(betPre[1].outcomeTokenAmounts,
                              betPre[1].outcomeTokenMarginalPrices[1],
                              evalOut[1].net_bet_amount,
                              decision.vote[1])[1]

\* a result text the parser has to reject: no JSON, JSON that is no object,
\* or an object with a field that is absent or not a number
Malformed(text) ==
    \/ ~text.json
    \/ text.obj = None
    \/ /\ text.obj # None
       /\ \E v \in {text.obj[1].p_yes, text.obj[1].p_no,
                    text.obj[1].confidence, text.obj[1].info_utility} :
              v \notin NumberTexts

\* C14: when the result text of the response is malformed, the cycle makes no
\* decision: no fault, no request to the bet-sizing service, no evaluation,
\* and a payload whose is_profitable and bet_amount are None.
C14_MalformedMeansNoDecision ==
    (/\ pc # "start"
     /\ mechResponse # None
     /\ mechResponse[1].result # None
     /\ Malformed(mechResponse[1].result[1])) =>
        /\ fault = None
        /\ sizingCalls = 0
        /\ evalOut = None
        /\ payload # None
        /\ payload[1].is_profitable = None
        /\ payload[1].bet_amount = None

\* C15: in replay mode, when _cut_dataset_row returns None the cycle takes
\* the exhausted branch and not an error one: no response is built, no
\* forecast is produced, no error is logged, and the payload is the
\* no-decision payload (is_profitable, vote, confidence, bet_amount all None).
C15_ExhaustedIsNotAnError ==
    (benchmarking /\ pc # "start" /\ lastResult.kind = "none") =>
        /\ fault = None
        /\ mechResponse = None
        /\ decision = NoDecision
        /\ "The benchmarking has finished!" \in logged
        /\ "There was an error on the mech's response" \notin logged
        /\ "Could not parse the mech's response" \notin logged
        /\ sizingCalls = 0
        /\ payload = Some(Payload(None, None, None, None))

\* C15 witness: the second cycle finds the dataset exhausted after the first
\* one consumed its only row, and submits the no-decision payload
C15_Witness ==
    /\ benchmarking
    /\ cycles = 2
    /\ pc = "done"
    /\ lastResult.kind = "none"
    /\ Len(returned) = 1
    /\ submitted = 1
    /\ payload = Some(Payload(None, None, None, None))

\* C16: when no data rows remain _cut_dataset_row returns None and leaves
\* the file unchanged and without rows, so that the next call returns None
\* again; and, without a crash, a dataset of n rows yields None from call n+1
\* on: no call faults, no more than n rows are returned, and None is returned
\* only after n rows.
C16_ExhaustionPermanent ==
    /\ (cutPc = "idle" /\ lastResult.kind = "none") =>
           /\ dataset = callPre
           /\ Records(dataset, sep) = <<>>
           /\ NextRow(dataset, 2, sep)[1] = None
    /\ (cutPc = "idle" /\ crashes = 0) =>
           /\ lastResult.kind \in {"start", "row", "none"}
           /\ Len(returned) <= Len(Records(original, sep))
           /\ lastResult.kind = "none" =>
                  Len(returned) = Len(Records(original, sep))

\* the forecast of the cycle has a vote, p_yes, p_no, a win probability and a
\* confidence
ForecastComplete ==
    /\ decision.vote # None
    /\ decision.p_yes # None
    /\ decision.p_no # None
    /\ decision.win_probability # None
    /\ decision.confidence # None

\* C17: in every payload, is_profitable is None exactly when bet_amount is;
\* both are set exactly when the forecast is complete, and then they are the
\* pair _is_profitable returned; with an incomplete forecast neither the
\* bet-sizing service nor the calculator was invoked.
C17_PayloadPairing ==
    payload # None =>
        /\ (payload[1].is_profitable = None) <=> (payload[1].bet_amount = None)
        /\ (payload[1].is_profitable # None) <=> ForecastComplete
        /\ ForecastComplete =>
               /\ evalOut # None
               /\ payload[1].is_profitable = Some(evalOut[1].is_profitable)
               /\ payload[1].bet_amount = Some(evalOut[1].bet_amount)
               /\ payload[1].vote = decision.vote
               /\ payload[1].confidence = decision.confidence
        /\ ~ForecastComplete =>
               /\ sizingCalls = 0
               /\ evalOut = None
               /\ recommended = None

\* C17 witness: a forecast with probabilities and a confidence but no vote
\* (a tie) is submitted as a payload without verdict and stake
C17_Witness ==
    /\ pc = "done"
    /\ submitted = 1
    /\ decision.vote = None
    /\ decision.p_yes # None
    /\ decision.confidence # None
    /\ payload[1].is_profitable = None
    /\ payload[1].bet_amount = None
    /\ sizingCalls = 0

-----------------------------------------------------------------------------
(* More properties of the replay source, checked under SpecCut *)

\* C18: after a call that removed the first row, the file holds the header
\* line and every other line exactly as they were written before the call.
C18_UntouchedLinesKeepBytes ==
    (cutPc = "idle" /\ crashes = 0 /\ lastResult.kind = "row") =>
        dataset = <<callPre[1]>> \o SubSeq(callPre, 3, Len(callPre))

\* C19: for every separator, after a call that removed the first row,
\* reading the file with that separator gives the header's names and, for
\* every other row, the fields it had before the call.
C19_UntouchedRowsKeepFields ==
    (cutPc = "idle" /\ crashes = 0 /\ lastResult.kind = "row") =>
        /\ FieldNames(dataset, sep) = FieldNames(callPre, sep)
        /\ Records(dataset, sep) = Tail(Records(callPre, sep))

\* C20: without a crash, what a call returns and the file it leaves are
\* determined by the file it started from and the separator, whatever the
\* moments at which the writer's buffer reaches the file system: two runs
\* from the same file give the same rows and the same files.
C20_ReplayDetermined ==
    (cutPc = "idle" /\ crashes = 0 /\ lastResult.kind # "start") =>
        /\ lastResult.kind = CutDatasetRow(callPre, sep).kind
        /\ lastResult.row = CutDatasetRow(callPre, sep).row
        /\ dataset = CutDatasetRow(callPre, sep).file

\* C20 witness: two completed calls on a dataset of three rows
C20_Witness ==
    /\ cutPc = "idle"
    /\ crashes = 0
    /\ lastResult.kind = "row"
    /\ Len(returned) = 2
    /\ Len(original) = 4
    /\ Len(dataset) = 2

\* C21: a call on a dataset without a header line logs the 'dataset has no
\* headers' error, returns without a row and leaves the file as it was; the
\* log tells this outcome from the exhaustion of a dataset that has a header.
C21_MissingHeaderIsReported ==
    (cutPc = "idle" /\ lastResult.kind = "none") =>
        /\ dataset = callPre
        /\ FieldNames(callPre, sep) = None
               <=> "The dataset has no headers!" \in logged

\* C22: a second evaluation of the same pool object with the same forecast
\* raises no fault and, for the same recommended stake, returns the verdict
\* and the stake of the first evaluation.
C22_RerunReturnsTheSame ==
    (~benchmarking /\ prevOut # None /\ pc # "start") =>
        /\ fault = None
        /\ (HasEvaluated /\ recommended[1] = prevOut[1].recommended) =>
               /\ evalOut[1].is_profitable = prevOut[1].is_profitable
               /\ evalOut[1].bet_amount = prevOut[1].bet_amount

\* numShares > availableShares * 1.05, in exact arithmetic
SlippageExceeded(shares) ==
    shares.num_shares * 20 > shares.available_shares * 21

\* C23: whether or not numShares > availableShares * 1.05, the verdict and
\* the stake returned and sent in the payload are the ones computed without
\* the slippage check: net profit >= 0 and max(recommended, floor).
C23_SlippageCheckIsAdvisory ==
    HasEvaluated =>
        LET out == evalOut[1]
            unchecked ==
                out.shares.num_shares - out.net_bet_amount
                    - (IF betThreshold > 0 THEN betThreshold ELSE 0) >= 0
        IN  /\ SlippageExceeded(out.shares) => out.is_profitable = unchecked
            /\ ~SlippageExceeded(out.shares) => out.is_profitable = unchecked
            /\ out.bet_amount = Max(recommended[1], betThreshold)
            /\ payload[1].is_profitable = Some(unchecked)
            /\ payload[1].bet_amount = Some(out.bet_amount)

\* C23 witness: the slippage limit is exceeded, the warning is logged, and
\* the trade is judged profitable and sent with a positive stake
C23_Witness ==
    /\ HasEvaluated
    /\ SlippageExceeded(evalOut[1].shares)
    /\ evalOut[1].liquidity_warning
    /\ "Kindly contemplate reducing your bet amount" \in logged
    /\ evalOut[1].is_profitable
    /\ evalOut[1].bet_amount > 0
    /\ payload[1].is_profitable = Some(TRUE)

\* C24: with the pool and the stake floor of the evaluation fixed, a sizing
\* service answering less than it did gives a stake that is not greater, and
\* one answering more gives a stake that is not smaller.
C24_StakeMonotone ==
    HasEvaluated =>
        \A r \in 0..MaxStake :
            LET other == IsProfitable(betPre[1], decision.vote[1], r,
                                      betThreshold).bet_amount
            IN  /\ r <= recommended[1] => other <= evalOut[1].bet_amount
                /\ r >= recommended[1] => other >= evalOut[1].bet_amount

\* C24 witness: an evaluation whose recommended stake lies strictly between
\* a smaller one that the floor lifts and a greater one
C24_Witness ==
    /\ HasEvaluated
    /\ betThreshold > 0
    /\ 0 < recommended[1]
    /\ recommended[1] < betThreshold
    /\ betThreshold < MaxStake + 1
    /\ evalOut[1].bet_amount = betThreshold
    /\ IsProfitable(betPre[1], decision.vote[1], 0,
                    betThreshold).bet_amount = betThreshold

\* the way to the bet
BetTrail ==
    << <<"SamplingRound", "DONE", "DecisionMakerRound">>,
       <<"DecisionMakerRound", "DONE", "BetPlacementRound">>,
       <<"BetPlacementRound", "DONE", "FinishedDecisionMakerRound">> >>

\* C25: BetPlacementRound is entered only from DecisionMakerRound on DONE, and
\* FinishedDecisionMakerRound is reached only along Sampling -DONE->
\* DecisionMaker -DONE-> BetPlacement -DONE->.
C25_BetOnlyAfterDoneDecision ==
    /\ \A i \in DOMAIN appTrail :
           (appTrail[i][3] = "BetPlacementRound"
                /\ appTrail[i][1] # "BetPlacementRound") =>
               /\ appTrail[i][1] = "DecisionMakerRound"
               /\ appTrail[i][2] = "DONE"
    /\ appRound = "BetPlacementRound" =>
           RoundChanges(appTrail) = SubSeq(BetTrail, 1, 2)
    /\ appRound = "FinishedDecisionMakerRound" =>
           RoundChanges(appTrail) = BetTrail

\* C25 witness: the bet is placed and the app finished, after rounds that
\* were run again
C25_Witness ==
    /\ appRound = "FinishedDecisionMakerRound"
    /\ Len(RoundStays(appTrail)) > 0
    /\ RoundChanges(appTrail) = BetTrail

\* the events of DecisionMakerRound that reject the bet
RejectingEvents == {"UNPROFITABLE", "TIE", "MECH_RESPONSE_ERROR"}

\* C26: after DecisionMakerRound emits UNPROFITABLE, TIE or
\* MECH_RESPONSE_ERROR the app is in BlacklistingRound and no later round is
\* BetPlacementRound or FinishedDecisionMakerRound; after NON_BINARY it is in
\* ImpossibleRound, a final round that has no transition.
C26_RejectedNeverBets ==
    \A i \in DOMAIN appTrail :
        /\ (appTrail[i][1] = "DecisionMakerRound"
                /\ appTrail[i][2] \in RejectingEvents) =>
               /\ appTrail[i][3] = "BlacklistingRound"
               /\ \A j \in i..Len(appTrail) :
                      appTrail[j][3] \notin {"BetPlacementRound",
                                             "FinishedDecisionMakerRound"}
               /\ appRound \notin {"BetPlacementRound",
                                    "FinishedDecisionMakerRound"}
        /\ (appTrail[i][1] = "DecisionMakerRound"
                /\ appTrail[i][2] = "NON_BINARY") =>
               /\ appTrail[i][3] = "ImpossibleRound"
               /\ appRound = "ImpossibleRound"
               /\ i = Len(appTrail)
               /\ "ImpossibleRound" \in final_states
               /\ ~ENABLED NextApp

\* C26 witness: an unprofitable bet, blacklisted, the app finished without a
\* decision
C26_Witness ==
    /\ appRound = "FinishedWithoutDecisionRound"
    /\ \E i \in DOMAIN appTrail :
           /\ appTrail[i][1] = "DecisionMakerRound"
           /\ appTrail[i][2] = "UNPROFITABLE"

\* C27: in Sampling, DecisionMaker, Blacklisting and BetPlacement the events
\* ROUND_TIMEOUT and NO_MAJORITY are possible and leave the app in the round
\* it is in.
C27_RetryKeepsTheRound ==
    /\ \A i \in DOMAIN appTrail :
           appTrail[i][2] \in RetryEvents =>
               /\ appTrail[i][3] = appTrail[i][1]
               /\ appTrail[i][3] \notin final_states
               /\ RoundChanges(SubSeq(appTrail, 1, i)) =
                      RoundChanges(SubSeq(appTrail, 1, i - 1))
    /\ appRound \notin final_states =>
           \A e \in RetryEvents :
               \A t \in transition_function :
                   (t[1] = appRound /\ t[2] = e) => t[3] = appRound
    /\ appRound \notin final_states =>
           \A e \in RetryEvents :
               <<appRound, e, appRound>> \in transition_function

\* C27 witness: a timeout in the sampling, one in the decision and a round
\* without majority in the bet placement, which is where the app still is
C27_Witness ==
    /\ appRound = "BetPlacementRound"
    /\ appTrail = << <<"SamplingRound", "ROUND_TIMEOUT", "SamplingRound">>,
                     <<"SamplingRound", "DONE", "DecisionMakerRound">>,
                     <<"DecisionMakerRound", "ROUND_TIMEOUT",
                       "DecisionMakerRound">>,
                     <<"DecisionMakerRound", "DONE", "BetPlacementRound">>,
                     <<"BetPlacementRound", "NO_MAJORITY",
                       "BetPlacementRound">> >>

\* C28: the final rounds have no transition, a round is never entered twice
\* (the only cycles are the rounds run again), no run changes the round more
\* than three times, and every run in which the rounds do not fail for ever
\* reaches a final round.
C28_ReachesFinalRound ==
    /\ [](/\ appRound \in final_states => ~ENABLED NextApp
          /\ \A t \in transition_function : t[1] \notin final_states
          /\ \A i, j \in DOMAIN RoundChanges(appTrail) :
                 j >= i => RoundChanges(appTrail)[j][3]
                               # RoundChanges(appTrail)[i][1]
          /\ Len(RoundChanges(appTrail)) <= 3)
    /\ <>(appRound \in final_states)

\* C28 witness: a final round reached with the third change of round
C28_Witness ==
    /\ appRound \in final_states
    /\ Len(RoundChanges(appTrail)) = 3
    /\ ~ENABLED NextApp

\* C29: a replay-mode cycle that is run after another on the same behaviour
\* object and finds the dataset exhausted asks for no sizing, evaluates
\* nothing and produces the payload without a decision.
C29_StoredForecastNotReused ==
    (benchmarking /\ cycles > 1 /\ pc # "start"
         /\ lastResult.kind = "none") =>
        /\ decision = NoDecision
        /\ sizingCalls = 0
        /\ evalOut = None
        /\ payload = Some(Payload(None, None, None, None))

\* the shares the pool gives for net on the side that holds reserve, the
\* other side holding as much: reserve - floor(k / (reserve + net))
RefSwappedShares(reserve, net) ==
    reserve - (reserve * reserve) \div (reserve + net)

\* C30: in replay mode the pool has equal reserves and both prices 0.5, the
\* shares bought above the net stake are the swapped shares
\* reserve - floor(k / (reserve + netStake)) >= 0, and the verdict is true for
\* a threshold <= 0 and is swappedShares >= threshold for a positive one.
C30_ReplayVerdictIsSwappedShares ==
    (benchmarking /\ HasEvaluated) =>
        LET amounts == betPre[1].outcomeTokenAmounts
            out == evalOut[1]
            swapped == RefSwappedShares(amounts[1], out.net_bet_amount)
        IN  /\ amounts[1] = amounts[2]
            /\ betPre[1].outcomeTokenMarginalPrices
                   = Some(<<<<1, 2>>, <<1, 2>>>>)
            /\ out.shares.num_shares - out.net_bet_amount = swapped
            /\ out.shares.swapped_shares = swapped
            /\ swapped >= 0
            /\ betThreshold <= 0 => out.is_profitable
            /\ betThreshold > 0 =>
                   (out.is_profitable <=> swapped >= betThreshold)

\* C31: the behaviour AgentDecisionMakerRoundBehaviour starts with is one of
\* its behaviours and its matching round is the round the app starts in.
C31_InitialBehaviourOfInitialRound ==
    appTrail = <<>> =>
        /\ appBehaviour # None
        /\ appBehaviour[1] \in behaviours
        /\ MatchingRound(appBehaviour[1]) = appRound

C33_SetupPayloadAndRoutes ==
    /\ setupData # None =>
           setupData = Some(IF uiEnabled /\ downloaded = Some(FALSE)
                            THEN "ERROR"
                            ELSE "DONE")
    /\ downloaded = Some(FALSE) => routes = routesPre

=============================================================================
